---------------------------- MODULE Spec2Model ----------------------------
(***************************************************************************)
(* A model of the two demonstration scripts of the repository:             *)
(*   polymorphism.py  - the Vehicle hierarchy (Car, Plane, Boat, Bicycle,  *)
(*                      Train);                                            *)
(*   smartphone.py    - the Electronics hierarchy (Electronics,            *)
(*                      Smartphone, Laptop) and its class-wide counter.    *)
(* Every method is a pure operator from the object (and its arguments) to  *)
(* the object after the call (and the value returned); an action applies   *)
(* one method to the object under observation and records which call it    *)
(* was and the object before it.                                           *)
(***************************************************************************)
EXTENDS Integers, Sequences, FiniteSets

VARIABLES
    v,              \* the vehicle under observation (polymorphism.py)
    vlast,          \* the last call made on it: [op, n, s]
    vpre,           \* the vehicle as it was before that call
    total_devices,  \* Electronics.total_devices (class variable)
    dev,            \* the device under observation (smartphone.py)
    last,           \* the last call made on it: [op, s, name, n]
    ret,            \* the value that call returned
    pre,            \* the device as it was before that call
    pre_total,      \* Electronics.total_devices before that call
    pc,             \* where demonstrate_classes is: "idle", "prompt", "exited"
    phone,          \* the Smartphone demonstrate_classes holds
    laptop,         \* the Laptop demonstrate_classes holds
    menu_pre,       \* phone and laptop before the last pass of the menu loop
    event           \* that pass: the lines read and the exception raised

vehicleVars == <<v, vlast, vpre>>
deviceVars == <<total_devices, dev, last, ret, pre, pre_total>>
menuVars == <<pc, phone, laptop, menu_pre, event>>
vars == <<v, vlast, vpre, total_devices, dev, last, ret, pre, pre_total,
          pc, phone, laptop, menu_pre, event>>

(***************************************************************************)
(* Bounds of the model.                                                    *)
(***************************************************************************)
\* accelerate() is not followed below -SpeedFloor km/h
SpeedFloor == 40

\* max_speed arguments given to the constructors
MaxSpeeds == {20, 60, 300}
\* speed_increase arguments of accelerate()
Deltas == {-25, 10, 60}
\* gear arguments of shift_gear()
Gears == {0, 1, 4, 6, 7}
\* target_altitude arguments of climb_altitude()
Altitudes == {0, 5000}
\* new_station arguments of change_station()
Stations == {"Central Station", "North Station"}

Variants == {"Car", "Plane", "Boat", "Bicycle", "Train"}

\* constructions followed
MaxDevices == 2
\* contacts stored on the phone
MaxContacts == 1
\* run_program() is not followed above MaxCpu percent
MaxCpu == 30

\* the numbers random.randint(100000, 999999) draws for a serial number
Serials == {100000}
\* the day datetime.now() gives
Days == {"2025-01-01"}
\* storage_gb and camera_mp arguments of Smartphone()
PhoneArgs == {[storage_gb |-> 8, camera_mp |-> 11],
              [storage_gb |-> 20, camera_mp |-> 12]}
\* passcode arguments of unlock_screen()
Passcodes == {"1234", "0000"}
\* name arguments of add_contact() and make_call(), letter by letter
AddNames == {<<"A", "l">>, <<"B", "o">>}
CallNames == {<<"a", "L">>, <<"B", "o">>, <<"C", "y">>}
PhoneNumbers == {"+254712345678"}
\* app_name arguments of install_app()
AppNames == {"Phone", "Maps", "Mail", "Chat"}
\* the times datetime.now() gives take_photo()
Stamps == {"20250101_120000"}
\* amount arguments of charge_battery()
Amounts == {50}
\* program_name arguments of run_program() and close_program()
Programs == {"vim", "gcc"}
\* the numbers random.randint(5, 15) draws
Jitters == 5..15

(***************************************************************************)
(* polymorphism.py : Vehicle                                               *)
(***************************************************************************)
PyMin(a, b) == IF b < a THEN b ELSE a

\* Vehicle.__init__: the fields common to all vehicles
Vehicle_init(type, name, max_speed, fuel_type, capacity) ==
    [type |-> type, name |-> name, max_speed |-> max_speed,
     fuel_type |-> fuel_type, capacity |-> capacity,
     current_speed |-> 0, is_moving |-> FALSE,
     fuel_level |-> 100, distance_traveled |-> 0]

\* r with the fields of s added (s wins where both have the field)
Extend(r, s) ==
    [f \in (DOMAIN r) \cup (DOMAIN s) |-> IF f \in DOMAIN s THEN s[f] ELSE r[f]]

Car_init(name, max_speed, capacity) ==
    Extend(Vehicle_init("Car", name, max_speed, "Gasoline", capacity),
           [gear |-> 1, doors |-> 4])

Plane_init(name, max_speed, capacity) ==
    Extend(Vehicle_init("Plane", name, max_speed, "Jet Fuel", capacity),
           [altitude |-> 0, is_airborne |-> FALSE])

Boat_init(name, max_speed, capacity) ==
    Extend(Vehicle_init("Boat", name, max_speed, "Diesel", capacity),
           [anchor_down |-> TRUE])

Bicycle_init(name, max_speed, capacity) ==
    Extend(Vehicle_init("Bicycle", name, max_speed, "Human Power", capacity),
           [pedaling |-> FALSE, gear |-> 1])

Train_init(name, max_speed, capacity) ==
    Extend(Vehicle_init("Train", name, max_speed, "Electric", capacity),
           [cars |-> 8, station |-> "Central Station"])

\* accelerate without the cap at max_speed
Vehicle_accelerate_unclamped(self, speed_increase) ==
    IF self.is_moving
    THEN [self EXCEPT !.current_speed = self.current_speed + speed_increase]
    ELSE self

\* Vehicle.accelerate: shared by every variant
Vehicle_accelerate(self, speed_increase) ==
    IF self.is_moving
    THEN [self EXCEPT !.current_speed =
                          PyMin(self.max_speed, self.current_speed + speed_increase)]
    ELSE self

\* move without the is_moving guard
Car_move_unguarded(self) ==
    [self EXCEPT !.is_moving = TRUE, !.current_speed = 30]

Car_move(self) ==
    IF ~self.is_moving
    THEN [self EXCEPT !.is_moving = TRUE, !.current_speed = 30]
    ELSE self

Car_stop(self) ==
    IF self.is_moving
    THEN [self EXCEPT !.current_speed = 0, !.is_moving = FALSE]
    ELSE self

\* shift_gear without the range test
Car_shift_gear_any_gear(self, gear) ==
    IF self.is_moving
    THEN [self EXCEPT !.gear = gear]
    ELSE self

Car_shift_gear(self, gear) ==
    IF 1 <= gear /\ gear <= 6 /\ self.is_moving
    THEN [self EXCEPT !.gear = gear]
    ELSE self

Plane_move(self) ==
    IF ~self.is_moving
    THEN [self EXCEPT !.is_moving = TRUE, !.is_airborne = TRUE,
                      !.current_speed = 250, !.altitude = 1000]
    ELSE self

Plane_stop(self) ==
    IF self.is_moving
    THEN [self EXCEPT !.altitude = 0, !.current_speed = 0,
                      !.is_moving = FALSE, !.is_airborne = FALSE]
    ELSE self

Plane_climb_altitude(self, target_altitude) ==
    IF self.is_airborne
    THEN [self EXCEPT !.altitude = target_altitude]
    ELSE self

Boat_move(self) ==
    IF ~self.is_moving
    THEN LET raised == IF self.anchor_down
                       THEN [self EXCEPT !.anchor_down = FALSE]
                       ELSE self
         IN  [raised EXCEPT !.is_moving = TRUE, !.current_speed = 25]
    ELSE self

Boat_stop(self) ==
    IF self.is_moving
    THEN [self EXCEPT !.current_speed = 0, !.is_moving = FALSE,
                      !.anchor_down = TRUE]
    ELSE self

Boat_drop_anchor(self) ==
    IF ~self.anchor_down /\ ~self.is_moving
    THEN [self EXCEPT !.anchor_down = TRUE]
    ELSE self

Bicycle_move(self) ==
    IF ~self.is_moving
    THEN [self EXCEPT !.is_moving = TRUE, !.pedaling = TRUE,
                      !.current_speed = 15]
    ELSE self

Bicycle_stop(self) ==
    IF self.is_moving
    THEN [self EXCEPT !.current_speed = 0, !.is_moving = FALSE,
                      !.pedaling = FALSE]
    ELSE self

\* Bicycle.ring_bell only prints
Bicycle_ring_bell(self) == self

\* move that sets the flag and not the speed
Train_move_keeps_speed(self) ==
    IF ~self.is_moving
    THEN [self EXCEPT !.is_moving = TRUE]
    ELSE self

Train_move(self) ==
    IF ~self.is_moving
    THEN [self EXCEPT !.is_moving = TRUE, !.current_speed = 80]
    ELSE self

Train_stop(self) ==
    IF self.is_moving
    THEN [self EXCEPT !.current_speed = 0, !.is_moving = FALSE]
    ELSE self

Train_change_station(self, new_station) ==
    IF ~self.is_moving
    THEN [self EXCEPT !.station = new_station]
    ELSE self

\* make_sound of every variant only prints one of three sounds
make_sound(self) == self

\* method dispatch on the object's class
move(self) ==
    CASE self.type = "Car"     -> Car_move(self)
      [] self.type = "Plane"   -> Plane_move(self)
      [] self.type = "Boat"    -> Boat_move(self)
      [] self.type = "Bicycle" -> Bicycle_move(self)
      [] self.type = "Train"   -> Train_move(self)

stop(self) ==
    CASE self.type = "Car"     -> Car_stop(self)
      [] self.type = "Plane"   -> Plane_stop(self)
      [] self.type = "Boat"    -> Boat_stop(self)
      [] self.type = "Bicycle" -> Bicycle_stop(self)
      [] self.type = "Train"   -> Train_stop(self)

\* the constructors, with the max_speed argument given
NewVehicle(type, max_speed) ==
    CASE type = "Car"     -> Car_init("car", max_speed, 5)
      [] type = "Plane"   -> Plane_init("plane", max_speed, 200)
      [] type = "Boat"    -> Boat_init("boat", max_speed, 50)
      [] type = "Bicycle" -> Bicycle_init("bicycle", max_speed, 2)
      [] type = "Train"   -> Train_init("train", max_speed, 500)

VCall(op, n, s) == [op |-> op, n |-> n, s |-> s]

\* one call on the vehicle: after is the vehicle the method leaves
VStep(after, op, n, s) ==
    /\ v' = after
    /\ vpre' = v
    /\ vlast' = VCall(op, n, s)
    /\ UNCHANGED deviceVars
    /\ UNCHANGED menuVars

Move == VStep(move(v), "move", 0, "")

Stop == VStep(stop(v), "stop", 0, "")

MakeSound == VStep(make_sound(v), "make_sound", 0, "")

Accelerate ==
    \E d \in Deltas :
        /\ v.is_moving => v.current_speed + d >= -SpeedFloor
        /\ VStep(Vehicle_accelerate(v, d), "accelerate", d, "")

ShiftGear ==
    \E g \in Gears :
        /\ v.type = "Car"
        /\ VStep(Car_shift_gear(v, g), "shift_gear", g, "")

ClimbAltitude ==
    \E a \in Altitudes :
        /\ v.type = "Plane"
        /\ VStep(Plane_climb_altitude(v, a), "climb_altitude", a, "")

DropAnchor ==
    /\ v.type = "Boat"
    /\ VStep(Boat_drop_anchor(v), "drop_anchor", 0, "")

RingBell ==
    /\ v.type = "Bicycle"
    /\ VStep(Bicycle_ring_bell(v), "ring_bell", 0, "")

ChangeStation ==
    \E s \in Stations :
        /\ v.type = "Train"
        /\ VStep(Train_change_station(v, s), "change_station", 0, s)

(***************************************************************************)
(* smartphone.py : Electronics                                             *)
(***************************************************************************)
\* the values a call returns, tagged by their Python type
None == [tag |-> "None"]
Bool(b) == [tag |-> "bool", b |-> b]
Str(s) == [tag |-> "str", s |-> s]
List(l) == [tag |-> "list", l |-> l]
Number(i) == [tag |-> "int", i |-> i]

\* a method's outcome: the object it leaves and the value it returns
Out(self, value) == [self |-> self, ret |-> value]

\* Electronics._get_base_power_consumption and its overrides
Electronics_get_base_power_consumption(self) == 50

Smartphone_get_base_power_consumption(self) == 15

Laptop_get_base_power_consumption(self) == 65

\* the hook not overridden: every device reads the base class's value
get_base_power_consumption_not_overridden(self) ==
    Electronics_get_base_power_consumption(self)

get_base_power_consumption(self) ==
    CASE self.type = "Electronics" -> Electronics_get_base_power_consumption(self)
      [] self.type = "Smartphone"  -> Smartphone_get_base_power_consumption(self)
      [] self.type = "Laptop"      -> Laptop_get_base_power_consumption(self)

\* Electronics.__init__ without the counter: the fields of the new object
Electronics_init(type, brand, model, price, warranty_years, serial, today) ==
    [type |-> type, brand |-> brand, model |-> model, price |-> price,
     warranty_years |-> warranty_years,
     serial_number |-> <<"SN", serial>>, manufacture_date |-> today,
     is_on |-> FALSE, power_consumption |-> 0]

\* the increment bound to the instance instead of the class
Electronics_count_on_instance(total) == total

\* Electronics.__init__: what it does to the class variable
Electronics_count(total) == total + 1

Electronics_power_on(self) ==
    IF ~self.is_on
    THEN Out([self EXCEPT !.is_on = TRUE,
                          !.power_consumption = get_base_power_consumption(self)],
             None)
    ELSE Out(self, None)

Electronics_power_off(self) ==
    IF self.is_on
    THEN Out([self EXCEPT !.is_on = FALSE, !.power_consumption = 0], None)
    ELSE Out(self, None)

(***************************************************************************)
(* smartphone.py : Smartphone                                              *)
(***************************************************************************)
Smartphone_init(brand, model, price, os, storage_gb, camera_mp, battery_mah, warranty_years, serial, today) ==
    Extend(Electronics_init("Smartphone", brand, model, price, warranty_years,
                            serial, today),
           [os |-> os, storage_gb |-> storage_gb, camera_mp |-> camera_mp,
            battery_mah |-> battery_mah,
            contacts |-> <<>>,
            apps_installed |-> <<"Phone", "Messages", "Settings">>,
            battery_level |-> 100,
            screen_locked |-> TRUE])

\* unlock_screen without the passcode test
Smartphone_unlock_screen_any_passcode(self, passcode) ==
    IF self.screen_locked
    THEN Out([self EXCEPT !.screen_locked = FALSE], Bool(TRUE))
    ELSE Out(self, Bool(TRUE))

Smartphone_unlock_screen(self, passcode) ==
    IF self.screen_locked
    THEN IF passcode = "1234"
         THEN Out([self EXCEPT !.screen_locked = FALSE], Bool(TRUE))
         ELSE Out(self, Bool(FALSE))
    ELSE Out(self, Bool(TRUE))

Smartphone_lock_screen(self) ==
    IF ~self.screen_locked
    THEN Out([self EXCEPT !.screen_locked = TRUE], None)
    ELSE Out(self, None)

Smartphone_add_contact(self, name, phone_number) ==
    IF ~self.screen_locked
    THEN LET contact == [name |-> name, phone |-> phone_number]
         IN  Out([self EXCEPT !.contacts = Append(@, contact)], Bool(TRUE))
    ELSE Out(self, Bool(FALSE))

\* x in a Python list
InList(x, l) == \E i \in DOMAIN l : l[i] = x

\* install_app with the capacity test off by one
Smartphone_install_app_off_by_one(self, app_name) ==
    IF ~self.screen_locked
    THEN IF ~InList(app_name, self.apps_installed)
         THEN IF Len(self.apps_installed) <= (self.storage_gb \div 4)
              THEN Out([self EXCEPT !.apps_installed = Append(@, app_name),
                                    !.battery_level = @ - 2],
                       Bool(TRUE))
              ELSE Out(self, Bool(FALSE))
         ELSE Out(self, Bool(FALSE))
    ELSE Out(self, Bool(FALSE))

Smartphone_install_app(self, app_name) ==
    IF ~self.screen_locked
    THEN IF ~InList(app_name, self.apps_installed)
         THEN IF Len(self.apps_installed) < (self.storage_gb \div 4)
              THEN Out([self EXCEPT !.apps_installed = Append(@, app_name),
                                    !.battery_level = @ - 2],
                       Bool(TRUE))
              ELSE Out(self, Bool(FALSE))
         ELSE Out(self, Bool(FALSE))
    ELSE Out(self, Bool(FALSE))

\* f"{photo_quality}_photo_{now}.jpg"
PhotoName(photo_quality, now) == <<photo_quality, "_photo_", now, ".jpg">>

\* take_photo with the threshold read as "more than 12 MP"
Smartphone_take_photo_above_12(self, now) ==
    IF ~self.screen_locked
    THEN IF self.battery_level > 5
         THEN LET photo_quality == IF self.camera_mp > 12 THEN "HD" ELSE "Standard"
              IN  Out([self EXCEPT !.battery_level = @ - 3],
                      Str(PhotoName(photo_quality, now)))
         ELSE Out(self, None)
    ELSE Out(self, None)

Smartphone_take_photo(self, now) ==
    IF ~self.screen_locked
    THEN IF self.battery_level > 5
         THEN LET photo_quality == IF self.camera_mp >= 12 THEN "HD" ELSE "Standard"
              IN  Out([self EXCEPT !.battery_level = @ - 3],
                      Str(PhotoName(photo_quality, now)))
         ELSE Out(self, None)
    ELSE Out(self, None)

\* str.lower() on the letters the names are written with
LowerChar(c) ==
    CASE c = "A" -> "a"
      [] c = "B" -> "b"
      [] c = "C" -> "c"
      [] c = "D" -> "d"
      [] c = "J" -> "j"
      [] c = "L" -> "l"
      [] c = "O" -> "o"
      [] c = "S" -> "s"
      [] c = "Y" -> "y"
      [] OTHER   -> c

Lower(s) == [i \in DOMAIN s |-> LowerChar(s[i])]

\* the lookup without lower(): names compared as written
FirstContact_case_sensitive(contacts, contact_name) ==
    LET hits == {i \in DOMAIN contacts : contacts[i].name = contact_name}
    IN  IF hits = {}
        THEN None
        ELSE contacts[CHOOSE i \in hits : \A j \in hits : i <= j]

\* next((c for c in contacts if c["name"].lower() == contact_name.lower()), None)
FirstContact(contacts, contact_name) ==
    LET hits == {i \in DOMAIN contacts :
                     Lower(contacts[i].name) = Lower(contact_name)}
    IN  IF hits = {}
        THEN None
        ELSE contacts[CHOOSE i \in hits : \A j \in hits : i <= j]

Smartphone_make_call(self, contact_name) ==
    IF ~self.screen_locked
    THEN LET contact == FirstContact(self.contacts, contact_name)
         IN  IF contact # None
             THEN IF self.battery_level > 10
                  THEN Out([self EXCEPT !.battery_level = @ - 5], Bool(TRUE))
                  ELSE Out(self, Bool(FALSE))
             ELSE Out(self, Bool(FALSE))
    ELSE Out(self, Bool(FALSE))

Smartphone_check_battery(self) == Out(self, Number(self.battery_level))

Smartphone_charge_battery(self, amount) ==
    Out([self EXCEPT !.battery_level = PyMin(100, self.battery_level + amount)],
        None)

\* get_contacts without the lock test
Smartphone_get_contacts_unlocked(self) == Out(self, List(self.contacts))

Smartphone_get_contacts(self) ==
    IF ~self.screen_locked
    THEN Out(self, List(self.contacts))
    ELSE Out(self, List(<<>>))

Smartphone_get_installed_apps(self) ==
    IF ~self.screen_locked
    THEN Out(self, List(self.apps_installed))
    ELSE Out(self, List(<<>>))

(***************************************************************************)
(* smartphone.py : Laptop                                                  *)
(***************************************************************************)
Laptop_init(brand, model, price, os, ram_gb, storage_gb, screen_size, warranty_years, serial, today) ==
    Extend(Electronics_init("Laptop", brand, model, price, warranty_years,
                            serial, today),
           [os |-> os, ram_gb |-> ram_gb, storage_gb |-> storage_gb,
            screen_size |-> screen_size,
            programs_running |-> <<>>,
            cpu_usage |-> 0])

PyMax(a, b) == IF b > a THEN b ELSE a

\* list.remove(x): the list without the first x
Remove(l, x) ==
    LET first == CHOOSE i \in DOMAIN l : l[i] = x /\ \A j \in 1..(i - 1) : l[j] # x
    IN  [k \in 1..(Len(l) - 1) |-> IF k < first THEN l[k] ELSE l[k + 1]]

\* jitter is the value random.randint(5, 15) draws
Laptop_run_program(self, program_name, jitter) ==
    IF ~InList(program_name, self.programs_running)
    THEN Out([self EXCEPT !.programs_running = Append(@, program_name),
                          !.cpu_usage = @ + jitter],
             None)
    ELSE Out(self, None)

\* close_program without the clamp at zero
Laptop_close_program_unclamped(self, program_name, jitter) ==
    IF InList(program_name, self.programs_running)
    THEN Out([self EXCEPT !.programs_running = Remove(@, program_name),
                          !.cpu_usage = @ - jitter],
             None)
    ELSE Out(self, None)

Laptop_close_program(self, program_name, jitter) ==
    IF InList(program_name, self.programs_running)
    THEN Out([self EXCEPT !.programs_running = Remove(@, program_name),
                          !.cpu_usage = PyMax(0, @ - jitter)],
             None)
    ELSE Out(self, None)

NoDevice == [type |-> "none"]
NoVehicle == [type |-> "none"]
Call(op, s, name, n) == [op |-> op, s |-> s, name |-> name, n |-> n]

\* smartphone.py not started: the class is defined, no instance exists
DeviceIdle ==
    /\ total_devices = 0
    /\ pre_total = 0
    /\ dev = NoDevice
    /\ last = Call("none", "", <<>>, 0)
    /\ ret = None
    /\ pre = NoDevice

\* demonstrate_classes not called
MenuIdle ==
    /\ pc = "idle"
    /\ phone = NoDevice
    /\ laptop = NoDevice
    /\ menu_pre = [phone |-> NoDevice, laptop |-> NoDevice]
    /\ event = [lines |-> <<>>, raised |-> "none"]

\* polymorphism.py not started
VehicleIdle ==
    /\ v = NoVehicle
    /\ vpre = NoVehicle
    /\ vlast = VCall("none", 0, "")

VehicleInit ==
    /\ \E type \in Variants, max_speed \in MaxSpeeds :
           /\ v = NewVehicle(type, max_speed)
           /\ vpre = v
    /\ vlast = VCall("__init__", 0, "")
    /\ DeviceIdle
    /\ MenuIdle

VehicleNext ==
    \/ Move
    \/ Stop
    \/ MakeSound
    \/ Accelerate
    \/ ShiftGear
    \/ ClimbAltitude
    \/ DropAnchor
    \/ RingBell
    \/ ChangeStation

VehicleSpec == VehicleInit /\ [][VehicleNext]_vars

(***************************************************************************)
(* smartphone.py : the calls, on the device under observation              *)
(***************************************************************************)
\* one call on the device: out is the method's outcome
DStep(out, op, s, name, n) ==
    /\ dev' = out.self
    /\ ret' = out.ret
    /\ pre' = dev
    /\ last' = Call(op, s, name, n)
    /\ pre_total' = total_devices
    /\ UNCHANGED total_devices
    /\ UNCHANGED vehicleVars
    /\ UNCHANGED menuVars

\* a constructor call: the new object becomes the device under observation
Construct(obj) ==
    /\ total_devices < MaxDevices
    /\ total_devices' = Electronics_count(total_devices)
    /\ pre_total' = total_devices
    /\ dev' = obj
    /\ pre' = NoDevice
    /\ ret' = None
    /\ last' = Call("__init__", obj.type, <<>>, 0)
    /\ UNCHANGED vehicleVars
    /\ UNCHANGED menuVars

NewElectronics ==
    \E serial \in Serials, today \in Days :
        Construct(Electronics_init("Electronics", "Generic", "Device", 9999, 1,
                                   serial, today))

NewSmartphone ==
    \E serial \in Serials, today \in Days, args \in PhoneArgs :
        Construct(Smartphone_init("TechPro", "X15 Pro", 89999, "Android 14",
                                  args.storage_gb, args.camera_mp, 4500, 2,
                                  serial, today))

NewLaptop ==
    \E serial \in Serials, today \in Days :
        Construct(Laptop_init("CompuTech", "PowerBook Pro", 129999,
                              "Linux Ubuntu", 16, 512, "15.6 inches", 3,
                              serial, today))

IsDevice == dev.type \in {"Electronics", "Smartphone", "Laptop"}
IsPhone == dev.type = "Smartphone"
IsLaptop == dev.type = "Laptop"

PowerOn ==
    /\ IsDevice
    /\ DStep(Electronics_power_on(dev), "power_on", "", <<>>, 0)

PowerOff ==
    /\ IsDevice
    /\ DStep(Electronics_power_off(dev), "power_off", "", <<>>, 0)

UnlockScreen ==
    \E passcode \in Passcodes :
        /\ IsPhone
        /\ DStep(Smartphone_unlock_screen(dev, passcode), "unlock_screen",
                 passcode, <<>>, 0)

LockScreen ==
    /\ IsPhone
    /\ DStep(Smartphone_lock_screen(dev), "lock_screen", "", <<>>, 0)

AddContact ==
    \E name \in AddNames, phone_number \in PhoneNumbers :
        /\ IsPhone
        /\ ~dev.screen_locked => Len(dev.contacts) < MaxContacts
        /\ DStep(Smartphone_add_contact(dev, name, phone_number), "add_contact",
                 phone_number, name, 0)

InstallApp ==
    \E app_name \in AppNames :
        /\ IsPhone
        /\ DStep(Smartphone_install_app(dev, app_name), "install_app",
                 app_name, <<>>, 0)

TakePhoto ==
    \E now \in Stamps :
        /\ IsPhone
        /\ DStep(Smartphone_take_photo(dev, now), "take_photo", now, <<>>, 0)

MakeCall ==
    \E contact_name \in CallNames :
        /\ IsPhone
        /\ DStep(Smartphone_make_call(dev, contact_name), "make_call",
                 "", contact_name, 0)

CheckBattery ==
    /\ IsPhone
    /\ DStep(Smartphone_check_battery(dev), "check_battery", "", <<>>, 0)

ChargeBattery ==
    \E amount \in Amounts :
        /\ IsPhone
        /\ DStep(Smartphone_charge_battery(dev, amount), "charge_battery",
                 "", <<>>, amount)

GetContacts ==
    /\ IsPhone
    /\ DStep(Smartphone_get_contacts(dev), "get_contacts", "", <<>>, 0)

GetInstalledApps ==
    /\ IsPhone
    /\ DStep(Smartphone_get_installed_apps(dev), "get_installed_apps",
             "", <<>>, 0)

RunProgram ==
    \E program_name \in Programs, jitter \in Jitters :
        /\ IsLaptop
        /\ ~InList(program_name, dev.programs_running)
               => dev.cpu_usage + jitter <= MaxCpu
        /\ DStep(Laptop_run_program(dev, program_name, jitter), "run_program",
                 program_name, <<>>, jitter)

CloseProgram ==
    \E program_name \in Programs, jitter \in Jitters :
        /\ IsLaptop
        /\ DStep(Laptop_close_program(dev, program_name, jitter),
                 "close_program", program_name, <<>>, jitter)

DeviceInit ==
    /\ DeviceIdle
    /\ VehicleIdle
    /\ MenuIdle

DeviceNext ==
    \/ NewElectronics
    \/ NewSmartphone
    \/ NewLaptop
    \/ PowerOn
    \/ PowerOff
    \/ UnlockScreen
    \/ LockScreen
    \/ AddContact
    \/ InstallApp
    \/ TakePhoto
    \/ MakeCall
    \/ CheckBattery
    \/ ChargeBattery
    \/ GetContacts
    \/ GetInstalledApps
    \/ RunProgram
    \/ CloseProgram

DeviceSpec == DeviceInit /\ [][DeviceNext]_vars

(***************************************************************************)
(* smartphone.py : demonstrate_classes                                     *)
(*                                                                         *)
(* A line typed at input() is a sequence of pieces.  A piece is one        *)
(* character, except that an app or a program name is typed as one piece,  *)
(* because the Smartphone and the Laptop hold these names whole.           *)
(***************************************************************************)
WhiteSpace == {" "}

\* str.strip()
Strip(s) ==
    LET keep == {i \in DOMAIN s : s[i] \notin WhiteSpace}
    IN  IF keep = {}
        THEN <<>>
        ELSE SubSeq(s, CHOOSE i \in keep : \A j \in keep : i <= j,
                       CHOOSE i \in keep : \A j \in keep : j <= i)

\* the str a stripped line of at most one piece is
Word(s) == IF s = <<>> THEN "" ELSE s[1]

Decimals == <<"0", "1", "2", "3", "4", "5", "6", "7", "8", "9">>

\* characters str.isdigit() accepts and int() does not
OtherDigits == {"SUPERSCRIPT TWO"}

\* str.isdigit(): at least one character, all of them digits
IsDigit(s) ==
    /\ s # <<>>
    /\ \A i \in DOMAIN s : InList(s[i], Decimals) \/ s[i] \in OtherDigits

DecimalValue(c) == (CHOOSE d \in DOMAIN Decimals : Decimals[d] = c) - 1

RECURSIVE IntValue(_)
IntValue(s) ==
    IF s = <<>>
    THEN 0
    ELSE 10 * IntValue(SubSeq(s, 1, Len(s) - 1)) + DecimalValue(s[Len(s)])

\* int(s) on a str that passed isdigit(): the value, or ValueError
ParseInt(s) ==
    IF \A i \in DOMAIN s : InList(s[i], Decimals)
    THEN [raised |-> "none", value |-> IntValue(s)]
    ELSE [raised |-> "ValueError", value |-> 0]

Electronics_get_device_info(self) ==
    LET status == IF self.is_on THEN "ON" ELSE "OFF"
    IN  [brand |-> self.brand, model |-> self.model, price |-> self.price,
         serial_number |-> self.serial_number,
         manufacture_date |-> self.manufacture_date,
         warranty_years |-> self.warranty_years,
         status |-> status,
         power_consumption |-> self.power_consumption]

Smartphone_get_smartphone_info(self) ==
    LET base_info == Electronics_get_device_info(self)
        smartphone_info ==
            [os |-> self.os, storage_gb |-> self.storage_gb,
             camera_mp |-> self.camera_mp, battery_mah |-> self.battery_mah,
             battery_level |-> self.battery_level,
             screen_locked |-> self.screen_locked,
             contacts_count |-> Len(self.contacts),
             apps_installed |-> Len(self.apps_installed)]
    IN  Extend(base_info, smartphone_info)

\* what is typed at the prompts
ChoiceLines ==
    {<<"1">>, <<"2">>, <<"3">>, <<"4">>, <<"5">>, <<" ", "5", " ">>,
     <<"5", "5">>, <<>>}
SubLines == {<<"a">>, <<"B">>, <<"c">>, <<" ", "D">>, <<"e">>}
AppLines == {<<"WhatsApp">>, <<" ", "Maps">>}
ContactLines ==
    {<<"a", "l", "i", "c", "e", " ", "S", "M", "I", "T", "H", " ">>,
     <<"B", "o">>}
ProgramLines == {<<" ", "vim">>}
AmountLines ==
    {<<>>, <<"a", "b">>, <<"-", "5">>, <<" ", "3", "0">>,
     <<"SUPERSCRIPT TWO">>}

\* what input() raises when no line arrives: Ctrl-C, or the end of stdin
InputErrors == {"KeyboardInterrupt", "EOFError"}

\* the except clauses with the catch-all clause left out
Except_keyboard_interrupt_only(raised) ==
    IF raised = "KeyboardInterrupt" THEN "exited" ELSE "crashed"

\* the except clauses of the loop: where control goes after an exception
Except(raised) ==
    IF raised = "KeyboardInterrupt" THEN "exited" ELSE "prompt"

\* the phone and the laptop when the first menu is shown
ScriptedPhone ==
    LET p0 == Smartphone_init("TechPro", "X15 Pro", 89999, "Android 14",
                              256, 48, 4500, 2, 100000, "2025-01-01")
        p1 == Electronics_power_on(p0).self
        p2 == Smartphone_check_battery(p1).self
        p3 == Smartphone_take_photo(p2, "20250101_120000").self
        p4 == Smartphone_unlock_screen(p3, "1234").self
        p5 == Smartphone_add_contact(p4,
                  <<"A", "l", "i", "c", "e", " ", "S", "m", "i", "t", "h">>,
                  "+254712345678").self
        p6 == Smartphone_add_contact(p5,
                  <<"B", "o", "b", " ", "J", "o", "h", "n", "s", "o", "n">>,
                  "+254798765432").self
        p7 == Smartphone_install_app(p6, "WhatsApp").self
        p8 == Smartphone_install_app(p7, "Instagram").self
        p9 == Smartphone_take_photo(p8, "20250101_120000").self
        p10 == Smartphone_make_call(p9,
                  <<"A", "l", "i", "c", "e", " ", "S", "m", "i", "t", "h">>).self
    IN  Smartphone_check_battery(p10).self

ScriptedLaptop ==
    Electronics_power_on(
        Laptop_init("CompuTech", "PowerBook Pro", 129999, "Linux Ubuntu",
                    16, 512, "15.6 inches", 3, 100001, "2025-01-01")).self

\* one pass of the while loop, from the menu to the next menu or out
MenuStep(lines, raised, new_phone, new_laptop, next_pc) ==
    /\ pc = "prompt"
    /\ pc' = next_pc
    /\ phone' = new_phone
    /\ laptop' = new_laptop
    /\ menu_pre' = [phone |-> phone, laptop |-> laptop]
    /\ event' = [lines |-> lines, raised |-> raised]
    /\ UNCHANGED deviceVars
    /\ UNCHANGED vehicleVars

MenuInstallApp ==
    \E choice \in ChoiceLines, sub \in SubLines, line \in AppLines :
        /\ Strip(choice) = <<"1">>
        /\ Lower(Strip(sub)) = <<"a">>
        /\ LET app_name == Word(Strip(line))
           IN  MenuStep(<<choice, sub, line>>, "none",
                        Smartphone_install_app(phone, app_name).self,
                        laptop, "prompt")

MenuTakePhoto ==
    \E choice \in ChoiceLines, sub \in SubLines, now \in Stamps :
        /\ Strip(choice) = <<"1">>
        /\ Lower(Strip(sub)) = <<"b">>
        /\ MenuStep(<<choice, sub>>, "none",
                    Smartphone_take_photo(phone, now).self, laptop, "prompt")

MenuMakeCall ==
    \E choice \in ChoiceLines, sub \in SubLines, line \in ContactLines :
        /\ Strip(choice) = <<"1">>
        /\ Lower(Strip(sub)) = <<"c">>
        /\ LET contact_name == Strip(line)
           IN  MenuStep(<<choice, sub, line>>, "none",
                        Smartphone_make_call(phone, contact_name).self,
                        laptop, "prompt")

MenuLockUnlock ==
    \E choice \in ChoiceLines, sub \in SubLines :
        /\ Strip(choice) = <<"1">>
        /\ Lower(Strip(sub)) = <<"d">>
        /\ MenuStep(<<choice, sub>>, "none",
                    IF Smartphone_get_smartphone_info(phone).screen_locked
                    THEN Smartphone_unlock_screen(phone, "1234").self
                    ELSE Smartphone_lock_screen(phone).self,
                    laptop, "prompt")

\* a sub-choice that is none of a, b, c, d: no branch is taken
MenuNoSubChoice ==
    \E choice \in ChoiceLines, sub \in SubLines :
        /\ Strip(choice) = <<"1">>
        /\ Lower(Strip(sub)) \notin {<<"a">>, <<"b">>, <<"c">>, <<"d">>}
        /\ MenuStep(<<choice, sub>>, "none", phone, laptop, "prompt")

MenuRunProgram ==
    \E choice \in ChoiceLines, line \in ProgramLines, jitter \in Jitters :
        /\ Strip(choice) = <<"2">>
        /\ LET program == Word(Strip(line))
           IN  MenuStep(<<choice, line>>, "none", phone,
                        Laptop_run_program(laptop, program, jitter).self,
                        "prompt")

MenuStatistics ==
    \E choice \in ChoiceLines :
        /\ Strip(choice) = <<"3">>
        /\ LET p1 == Smartphone_check_battery(phone).self
               p2 == Smartphone_get_contacts(p1).self
               p3 == Smartphone_get_installed_apps(p2).self
           IN  MenuStep(<<choice>>, "none", p3, laptop, "prompt")

MenuCharge ==
    \E choice \in ChoiceLines, line \in AmountLines :
        /\ Strip(choice) = <<"4">>
        /\ LET amount == Strip(line)
               parsed == IF IsDigit(amount)
                         THEN ParseInt(amount)
                         ELSE [raised |-> "none", value |-> 50]
           IN  IF parsed.raised = "none"
               THEN MenuStep(<<choice, line>>, "none",
                             Smartphone_charge_battery(phone, parsed.value).self,
                             laptop, "prompt")
               ELSE MenuStep(<<choice, line>>, parsed.raised, phone, laptop,
                             Except(parsed.raised))

MenuExit ==
    \E choice \in ChoiceLines :
        /\ Strip(choice) = <<"5">>
        /\ MenuStep(<<choice>>, "none", phone, laptop, "exited")

MenuInvalidChoice ==
    \E choice \in ChoiceLines :
        /\ Strip(choice) \notin {<<"1">>, <<"2">>, <<"3">>, <<"4">>, <<"5">>}
        /\ MenuStep(<<choice>>, "none", phone, laptop, "prompt")

\* the lines a pass reads before an input() call that is still to come
LinesBeforeInput ==
    {<<>>}
    \cup {<<choice>> : choice \in
              {c \in ChoiceLines : Strip(c) \in {<<"1">>, <<"2">>, <<"4">>}}}
    \cup {<<choice, sub>> : choice \in {c \in ChoiceLines : Strip(c) = <<"1">>},
                            sub \in {s \in SubLines :
                                         Lower(Strip(s)) \in {<<"a">>, <<"c">>}}}

\* an input() call of the pass raises instead of returning a line
MenuInputRaises ==
    \E lines \in LinesBeforeInput, raised \in InputErrors :
        MenuStep(lines, raised, phone, laptop, Except(raised))

\* demonstrate_classes has run its scripted part and shows the first menu
MenuInit ==
    /\ pc = "prompt"
    /\ phone = ScriptedPhone
    /\ laptop = ScriptedLaptop
    /\ menu_pre = [phone |-> phone, laptop |-> laptop]
    /\ event = [lines |-> <<>>, raised |-> "none"]
    /\ total_devices = Electronics_count(Electronics_count(Electronics_count(0)))
    /\ pre_total = total_devices
    /\ dev = NoDevice
    /\ last = Call("none", "", <<>>, 0)
    /\ ret = None
    /\ pre = NoDevice
    /\ VehicleIdle

MenuNext ==
    \/ MenuInstallApp
    \/ MenuTakePhoto
    \/ MenuMakeCall
    \/ MenuLockUnlock
    \/ MenuNoSubChoice
    \/ MenuRunProgram
    \/ MenuStatistics
    \/ MenuCharge
    \/ MenuExit
    \/ MenuInvalidChoice
    \/ MenuInputRaises

MenuSpec == MenuInit /\ [][MenuNext]_vars

(***************************************************************************)
(* Properties of the Vehicle hierarchy (checked under VehicleSpec)         *)
(***************************************************************************)
\* the starting speed each variant's move() is documented to set
DocumentedStart(type) ==
    CASE type = "Car"     -> 30
      [] type = "Plane"   -> 250
      [] type = "Boat"    -> 25
      [] type = "Bicycle" -> 15
      [] type = "Train"   -> 80

\* C1: in every state reachable by move, stop and accelerate calls, for
\* every variant and every max_speed, current_speed <= max_speed, and
\* current_speed = 0 whenever the vehicle is not moving.
C1_SpeedWithinMax ==
    /\ v.current_speed <= v.max_speed
    /\ ~v.is_moving => v.current_speed = 0

\* C2 as stated: whenever move() has returned, is_moving is true and
\* current_speed is the variant's starting speed; whenever stop() has
\* returned, is_moving is false and current_speed is 0.
C2_AfterMoveStartSpeed ==
    /\ vlast.op = "move" =>
           v.is_moving /\ v.current_speed = DocumentedStart(v.type)
    /\ vlast.op = "stop" =>
           ~v.is_moving /\ v.current_speed = 0

\* C2 amended: after move() is_moving is true, and current_speed is the
\* variant's starting speed when the vehicle was not moving before the call
\* and is unchanged when it was already moving; after stop() is_moving is
\* false and current_speed is 0.
C2_AfterMoveFromStopped ==
    /\ vlast.op = "move" =>
           /\ v.is_moving
           /\ v.current_speed = IF vpre.is_moving
                                THEN vpre.current_speed
                                ELSE DocumentedStart(v.type)
    /\ vlast.op = "stop" =>
           ~v.is_moving /\ v.current_speed = 0

\* a plane has just taken off from standstill
C2_Witness ==
    /\ vlast.op = "move"
    /\ ~vpre.is_moving
    /\ v.type = "Plane"
    /\ v.is_moving
    /\ v.current_speed = 250

\* C3: move() on a moving vehicle and stop() on a stopped vehicle leave
\* every field of the vehicle, common and variant-specific, unchanged.
C3_RedundantCallIsNoOp ==
    /\ (vlast.op = "move" /\ vpre.is_moving) => v = vpre
    /\ (vlast.op = "stop" /\ ~vpre.is_moving) => v = vpre

\* move() was called on a car driving at a speed other than its starting speed
C3_Witness ==
    /\ vlast.op = "move"
    /\ vpre.type = "Car"
    /\ vpre.is_moving
    /\ vpre.current_speed = 40
    /\ v.current_speed = 40

\* C4: accelerate(d) changes nothing when the vehicle is not moving; when it
\* is moving it sets current_speed to min(max_speed, old speed + d) and
\* leaves every other field as it was.
C4_Accelerate ==
    vlast.op = "accelerate" =>
        LET sum == vpre.current_speed + vlast.n
            expected == IF sum <= vpre.max_speed THEN sum ELSE vpre.max_speed
        IN  IF vpre.is_moving
            THEN v = [vpre EXCEPT !.current_speed = expected]
            ELSE v = vpre

\* accelerate() was called on a moving vehicle and the sum passed max_speed
C4_Witness ==
    /\ vlast.op = "accelerate"
    /\ vpre.is_moving
    /\ vpre.current_speed < vpre.max_speed
    /\ vpre.current_speed + vlast.n > vpre.max_speed
    /\ v.current_speed = v.max_speed

(***************************************************************************)
(* Properties of the Electronics hierarchy (checked under DeviceSpec)      *)
(***************************************************************************)
PhoneCalled(ops) == last.op \in ops /\ pre.type = "Smartphone"

\* a value Python treats as false: None, False or an empty list
Falsy(value) ==
    \/ value.tag = "None"
    \/ value.tag = "bool" /\ ~value.b
    \/ value.tag = "list" /\ value.l = <<>>

\* C5: total_devices grows by exactly 1 with each construction of an
\* Electronics, Smartphone or Laptop, and no other call changes it.
C5_CounterCountsConstructions ==
    /\ last.op = "__init__" => total_devices = pre_total + 1
    /\ last.op # "__init__" => total_devices = pre_total

\* a laptop was constructed as the second device
C5_Witness ==
    /\ last.op = "__init__"
    /\ dev.type = "Laptop"
    /\ pre_total = 1
    /\ total_devices = 2

\* C6: with the screen locked, add_contact, install_app, take_photo and
\* make_call return a falsy value and leave contacts, installed apps,
\* battery_level and the lock unchanged; get_contacts and get_installed_apps
\* return an empty list.
C6_LockedCallsFailSoftly ==
    /\ (PhoneCalled({"add_contact", "install_app", "take_photo", "make_call"})
            /\ pre.screen_locked) =>
           /\ Falsy(ret)
           /\ dev.contacts = pre.contacts
           /\ dev.apps_installed = pre.apps_installed
           /\ dev.battery_level = pre.battery_level
           /\ dev.screen_locked = pre.screen_locked
    /\ (PhoneCalled({"get_contacts", "get_installed_apps"})
            /\ pre.screen_locked) =>
           ret.tag = "list" /\ ret.l = <<>>

\* make_call was refused on a locked phone that holds the contact called
\* and has the battery for the call
C6_Witness ==
    /\ PhoneCalled({"make_call"})
    /\ pre.screen_locked
    /\ pre.battery_level > 10
    /\ \E i \in DOMAIN pre.contacts : pre.contacts[i].name = last.name
    /\ ret.tag = "bool" /\ ~ret.b

\* C7: battery_level stays within 0..100 in every state reached by
\* unlock_screen, lock_screen, add_contact, install_app, take_photo,
\* make_call and charge_battery; charge_battery(amount) leaves
\* battery_level = min(100, old + amount).
C7_BatteryWithinRange ==
    /\ dev.type = "Smartphone" =>
           0 <= dev.battery_level /\ dev.battery_level <= 100
    /\ PhoneCalled({"charge_battery"}) =>
           LET sum == pre.battery_level + last.n
           IN  dev.battery_level = IF sum <= 100 THEN sum ELSE 100

\* C8: on an unlocked phone take_photo returns None and changes nothing
\* when battery_level <= 5; otherwise it lowers battery_level by exactly 3
\* and returns a non-empty name labelled "HD" when camera_mp >= 12 and
\* "Standard" otherwise.
C8_TakePhoto ==
    (PhoneCalled({"take_photo"}) /\ ~pre.screen_locked) =>
        IF pre.battery_level <= 5
        THEN ret.tag = "None" /\ dev = pre
        ELSE /\ dev = [pre EXCEPT !.battery_level = pre.battery_level - 3]
             /\ ret.tag = "str"
             /\ Len(ret.s) > 0
             /\ ret.s[1] = IF pre.camera_mp >= 12 THEN "HD" ELSE "Standard"

\* a new phone with a 12 MP camera was unlocked and took an "HD" photo
C8_Witness ==
    /\ PhoneCalled({"take_photo"})
    /\ ~pre.screen_locked
    /\ pre.camera_mp >= 12
    /\ pre.battery_level = 100
    /\ dev.battery_level = 97
    /\ ret.tag = "str" /\ ret.s[1] = "HD"

NoDuplicates(l) == \A i, j \in DOMAIN l : l[i] = l[j] => i = j

\* what C9 says of install_app on an unlocked phone
InstallAppContract ==
    (PhoneCalled({"install_app"}) /\ ~pre.screen_locked) =>
        IF /\ \A i \in DOMAIN pre.apps_installed :
                  pre.apps_installed[i] # last.s
           /\ Len(pre.apps_installed) < pre.storage_gb \div 4
        THEN /\ ret.tag = "bool" /\ ret.b
             /\ dev = [pre EXCEPT
                          !.apps_installed = pre.apps_installed \o <<last.s>>,
                          !.battery_level = pre.battery_level - 2]
        ELSE /\ ret.tag = "bool" /\ ~ret.b
             /\ dev.apps_installed = pre.apps_installed
             /\ dev.battery_level = pre.battery_level

\* C9 as stated: for any storage_gb the number of installed apps is at most
\* storage_gb / 4 in every reachable state; install_app on an unlocked phone
\* appends the app and takes 2 battery points only when the app is new and
\* the count is below storage_gb // 4, and otherwise returns False and
\* leaves the list and the battery alone; the list holds no duplicates.
C9_AppsBoundedByStorage ==
    /\ dev.type = "Smartphone" =>
           /\ 4 * Len(dev.apps_installed) <= dev.storage_gb
           /\ NoDuplicates(dev.apps_installed)
    /\ InstallAppContract

\* C9 amended: the number of installed apps is at most the larger of 3 (the
\* apps every phone is constructed with) and storage_gb // 4; the rest as
\* stated.
C9_AppsBoundedByStorageOrPreinstalled ==
    /\ dev.type = "Smartphone" =>
           /\ Len(dev.apps_installed) <=
                  (IF dev.storage_gb \div 4 > 3 THEN dev.storage_gb \div 4 ELSE 3)
           /\ NoDuplicates(dev.apps_installed)
    /\ InstallAppContract

\* a new app was refused on an unlocked phone whose installs had filled
\* storage_gb // 4
C9_Witness ==
    /\ PhoneCalled({"install_app"})
    /\ ~pre.screen_locked
    /\ Len(pre.apps_installed) > 3
    /\ Len(pre.apps_installed) = pre.storage_gb \div 4
    /\ \A i \in DOMAIN pre.apps_installed : pre.apps_installed[i] # last.s
    /\ ret.tag = "bool" /\ ~ret.b

\* the same name, ignoring case (compared in upper case)
UpperChar(c) ==
    CASE c = "a" -> "A"
      [] c = "b" -> "B"
      [] c = "c" -> "C"
      [] c = "l" -> "L"
      [] c = "o" -> "O"
      [] c = "y" -> "Y"
      [] OTHER   -> c

SameIgnoringCase(a, b) ==
    /\ Len(a) = Len(b)
    /\ \A i \in DOMAIN a : UpperChar(a[i]) = UpperChar(b[i])

\* C10: on an unlocked phone make_call(name) returns True and lowers
\* battery_level by exactly 5 if and only if a stored contact's name equals
\* name ignoring case and battery_level > 10; in every other case it returns
\* False and changes nothing.
C10_MakeCall ==
    (PhoneCalled({"make_call"}) /\ ~pre.screen_locked) =>
        LET known == \E i \in DOMAIN pre.contacts :
                         SameIgnoringCase(pre.contacts[i].name, last.name)
        IN  IF known /\ pre.battery_level > 10
            THEN /\ ret.tag = "bool" /\ ret.b
                 /\ dev = [pre EXCEPT !.battery_level = pre.battery_level - 5]
            ELSE /\ ret.tag = "bool" /\ ~ret.b
                 /\ dev = pre

\* a call went through to a contact stored in another case than the name
\* called
C10_Witness ==
    /\ PhoneCalled({"make_call"})
    /\ ~pre.screen_locked
    /\ Len(pre.contacts) > 0
    /\ pre.contacts[Len(pre.contacts)].name = <<"A", "l">>
    /\ last.name = <<"a", "L">>
    /\ ret.tag = "bool" /\ ret.b
    /\ dev.battery_level = pre.battery_level - 5

\* C11 as stated: for every passcode other than "1234" unlock_screen
\* returns False and leaves the lock as it was, in every reachable state;
\* with "1234" it returns True and the screen is unlocked afterwards; the
\* screen becomes unlocked only through a call with the correct passcode.
C11_UnlockOnlyWithPasscode ==
    /\ (PhoneCalled({"unlock_screen"}) /\ last.s # "1234") =>
           /\ ret.tag = "bool" /\ ~ret.b
           /\ dev.screen_locked = pre.screen_locked
    /\ (PhoneCalled({"unlock_screen"}) /\ last.s = "1234") =>
           /\ ret.tag = "bool" /\ ret.b
           /\ ~dev.screen_locked
    /\ (pre.type = "Smartphone" /\ pre.screen_locked /\ ~dev.screen_locked) =>
           last.op = "unlock_screen" /\ last.s = "1234"

\* C11 amended: on a locked screen every passcode other than "1234" makes
\* unlock_screen return False and leaves the screen locked; on a screen that
\* is already unlocked unlock_screen returns True whatever the passcode and
\* changes nothing; with "1234" it returns True and the screen is unlocked
\* afterwards; the screen becomes unlocked only through a call with the
\* correct passcode.
C11_UnlockOnlyWithPasscodeWhenLocked ==
    /\ (PhoneCalled({"unlock_screen"}) /\ last.s # "1234") =>
           IF pre.screen_locked
           THEN ret.tag = "bool" /\ ~ret.b /\ dev = pre
           ELSE ret.tag = "bool" /\ ret.b /\ dev = pre
    /\ (PhoneCalled({"unlock_screen"}) /\ last.s = "1234") =>
           /\ ret.tag = "bool" /\ ret.b
           /\ dev = [pre EXCEPT !.screen_locked = FALSE]
    /\ (pre.type = "Smartphone" /\ pre.screen_locked /\ ~dev.screen_locked) =>
           last.op = "unlock_screen" /\ last.s = "1234"
    /\ (last.op = "__init__" /\ dev.type = "Smartphone") => dev.screen_locked

\* a wrong passcode was refused on a phone locked again after use
C11_Witness ==
    /\ PhoneCalled({"unlock_screen"})
    /\ last.s = "0000"
    /\ pre.screen_locked
    /\ pre.battery_level < 100
    /\ dev.screen_locked
    /\ ret.tag = "bool" /\ ~ret.b

\* the base power consumption documented for each class
DocumentedBasePower(type) ==
    CASE type = "Electronics" -> 50
      [] type = "Smartphone"  -> 15
      [] type = "Laptop"      -> 65

\* C12: power_on on a device that is off sets the on flag and sets
\* power_consumption to the class's base value (Electronics 50, Smartphone
\* 15, Laptop 65); power_off on a device that is on clears the flag and sets
\* power_consumption to 0; power_on while on and power_off while off change
\* nothing; so power_consumption is the base value whenever the device is on
\* and 0 whenever it is off.
C12_PowerFollowsFlag ==
    /\ (last.op = "power_on" /\ ~pre.is_on) =>
           dev = [pre EXCEPT !.is_on = TRUE,
                             !.power_consumption = DocumentedBasePower(pre.type)]
    /\ (last.op = "power_off" /\ pre.is_on) =>
           dev = [pre EXCEPT !.is_on = FALSE, !.power_consumption = 0]
    /\ (last.op = "power_on" /\ pre.is_on) => dev = pre
    /\ (last.op = "power_off" /\ ~pre.is_on) => dev = pre
    /\ dev.type \in {"Electronics", "Smartphone", "Laptop"} =>
           dev.power_consumption =
               IF dev.is_on THEN DocumentedBasePower(dev.type) ELSE 0

\* a laptop that had been switched on and off was switched on again
C12_Witness ==
    /\ last.op = "power_on"
    /\ pre.type = "Laptop"
    /\ ~pre.is_on
    /\ Len(pre.programs_running) > 0
    /\ dev.is_on
    /\ dev.power_consumption = 65

LaptopCalled(ops) == last.op \in ops /\ pre.type = "Laptop"

\* C13: run_program of a running name and close_program of a name not
\* running leave the running list and cpu_usage unchanged; run_program of a
\* new name appends it and raises cpu_usage by the 5..15 drawn;
\* close_program of a running name removes it and lowers cpu_usage by the
\* 5..15 drawn, not below 0; the running list never holds a duplicate and
\* cpu_usage is never negative.
C13_LaptopPrograms ==
    /\ LaptopCalled({"run_program"}) =>
           /\ last.n \in 5..15
           /\ IF \E i \in DOMAIN pre.programs_running :
                     pre.programs_running[i] = last.s
              THEN dev = pre
              ELSE dev = [pre EXCEPT
                             !.programs_running = pre.programs_running \o <<last.s>>,
                             !.cpu_usage = pre.cpu_usage + last.n]
    /\ LaptopCalled({"close_program"}) =>
           /\ last.n \in 5..15
           /\ IF \E i \in DOMAIN pre.programs_running :
                     pre.programs_running[i] = last.s
              THEN /\ dev.programs_running =
                          SelectSeq(pre.programs_running, LAMBDA x : x # last.s)
                   /\ dev.cpu_usage =
                          (IF pre.cpu_usage - last.n < 0
                           THEN 0
                           ELSE pre.cpu_usage - last.n)
                   /\ dev = [pre EXCEPT
                                !.programs_running = dev.programs_running,
                                !.cpu_usage = dev.cpu_usage]
              ELSE dev = pre
    /\ dev.type = "Laptop" =>
           /\ NoDuplicates(dev.programs_running)
           /\ dev.cpu_usage >= 0

\* a program was closed with a draw larger than the cpu_usage left, while
\* another program was still running
C13_Witness ==
    /\ LaptopCalled({"close_program"})
    /\ Len(pre.programs_running) = 2
    /\ Len(dev.programs_running) = 1
    /\ pre.cpu_usage > 0
    /\ pre.cpu_usage < last.n
    /\ dev.cpu_usage = 0

(***************************************************************************)
(* Properties of the variants' own fields (checked under VehicleSpec)      *)
(***************************************************************************)
\* C15: in every reachable state a boat has anchor_down = not is_moving, a
\* plane has is_airborne = is_moving and altitude 0 whenever it is not
\* airborne, a bicycle has pedaling = is_moving, a car's gear is within 1..6
\* and changes only while the car is moving, and a train's station changes
\* only while the train is not moving.
C15_VariantFlagsTrackMoving ==
    /\ v.type = "Boat" => v.anchor_down = ~v.is_moving
    /\ v.type = "Plane" =>
           /\ v.is_airborne = v.is_moving
           /\ ~v.is_airborne => v.altitude = 0
    /\ v.type = "Bicycle" => v.pedaling = v.is_moving
    /\ v.type = "Car" =>
           /\ v.gear \in 1..6
           /\ v.gear # vpre.gear => vpre.is_moving
    /\ v.type = "Train" =>
           (v.station # vpre.station => ~vpre.is_moving)

\* a moving car was asked for gear 7 after it had shifted to gear 4
C15_Witness ==
    /\ vlast.op = "shift_gear"
    /\ vlast.n = 7
    /\ vpre.is_moving
    /\ vpre.gear = 4
    /\ v.gear = 4


(***************************************************************************)
(* Properties of the menu loop (checked under MenuSpec)                    *)
(***************************************************************************)
\* what was typed on a line, blanks aside
Typed(line) == SelectSeq(line, LAMBDA c : c # " ")

\* no character of the line is a digit of any kind
NonNumeric(line) ==
    \A i \in DOMAIN line :
        line[i] \notin {"0", "1", "2", "3", "4", "5", "6", "7", "8", "9",
                        "SUPERSCRIPT TWO"}

\* C14: after a pass of the menu loop, (a) an invalid choice leaves the loop
\* at the next prompt with the phone and the laptop untouched, (b) an
\* exception other than a keyboard interrupt raised in the pass is caught and
\* the loop is at the next prompt, (c) the loop has exited exactly when the
\* pass read the choice 5 or a keyboard interrupt occurred in it, and (d)
\* choice 4 with a charge amount that holds no digit adds 50 to the battery
\* level, capped at 100, and changes nothing else.
C14_MenuLoop ==
    LET passed == event.lines # <<>> \/ event.raised # "none"
        choice == IF event.lines = <<>> THEN <<>> ELSE Typed(event.lines[1])
        interrupted == event.raised = "KeyboardInterrupt"
        failed == event.raised \notin {"none", "KeyboardInterrupt"}
        invalid == /\ event.raised = "none"
                   /\ event.lines # <<>>
                   /\ choice \notin {<<"1">>, <<"2">>, <<"3">>, <<"4">>, <<"5">>}
        default_charge == /\ event.raised = "none"
                          /\ choice = <<"4">>
                          /\ Len(event.lines) = 2
                          /\ NonNumeric(event.lines[2])
        charged == IF menu_pre.phone.battery_level + 50 > 100
                   THEN 100
                   ELSE menu_pre.phone.battery_level + 50
    IN  passed =>
            /\ pc \in {"prompt", "exited"}
            /\ invalid => /\ pc = "prompt"
                          /\ phone = menu_pre.phone
                          /\ laptop = menu_pre.laptop
            /\ failed => pc = "prompt"
            /\ pc = "exited" <=>
                   \/ interrupted
                   \/ event.raised = "none" /\ choice = <<"5">>
            /\ default_charge =>
                   /\ phone = [menu_pre.phone EXCEPT !.battery_level = charged]
                   /\ laptop = menu_pre.laptop

\* int() has raised ValueError on a charge amount that isdigit() accepted,
\* the error was caught and the menu is shown again
C14_Witness ==
    /\ event.raised = "ValueError"
    /\ Len(event.lines) = 2
    /\ Typed(event.lines[1]) = <<"4">>
    /\ pc = "prompt"
    /\ phone = menu_pre.phone

=============================================================================
